---- MODULE Spec2Model ----
(***************************************************************************)
(* Signal Spectrum Analyzer: the spectral index utilities (fftfreq,        *)
(* fftshift) of src/lib/fft-utils.ts, the zod parsing pipeline of          *)
(* ~/schemas (dataSchema) and the App component that drives them.          *)
(***************************************************************************)
EXTENDS Integers, Sequences, FiniteSets, TLC

(***************************************************************************)
(* Bounds of the model.                                                    *)
(***************************************************************************)
\* largest sample count n handed to fftfreq
MaxN == 10
\* longest sequence handed directly to fftshift
MaxSeqLen == 4
\* most lines of an uploaded text, blank lines included
MaxLines == 3
\* most whitespace-separated tokens on one line
MaxTok == 4
\* most tokens of an uploaded text, all lines together
MaxTotal == 6
\* most rows handed directly to checkUniform
MaxRows == 3
\* most rows handed directly to splitIntoPairs
MaxSplitRows == 2
\* most files selected in one behaviour of the App
MaxSelects == 2

VARIABLES
    \* ---- the spectral utilities applied as pure functions ----
    fn,       \* n, the sample count handed to fftfreq
    frate,    \* the sample rate handed to fftfreq
    farr,     \* the sequence fftshift is applied to
    fout,     \* what fftshift returned
    fpc,      \* "start" | "freq" | "given" | "shiftedFreq" | "shiftedGiven"
    \* ---- one run of dataSchema.parse, stage by stage ----
    content,     \* the text handed to dataSchema: its lines, each the sequence of its tokens
    lines,       \* output of trimAndSplit
    header,      \* header as the stages hand it on (null or the titles)
    dataLines,   \* output of detectHeader
    rows,        \* output of parseDataRows: number[][]
    scanned,     \* how many data lines the loop of parseDataRows has looked at
    data,        \* output of checkUniform
    numCols,     \* output of checkUniform
    pairedData,  \* output of splitIntoPairs: ReImPair[][]
    numPairs,    \* output of splitIntoPairs
    issues,      \* the issues added to the zod context so far
    pc,          \* the stage to run next, or "done" / "failed" / "idle"
    \* ---- the App component ----
    parsedData,  \* the parsedData signal: null or the Dataset of the last good parse
    status,      \* the status signal
    error,       \* the error signal: null or the message shown
    getFrequency,  \* the getFrequency signal
    getPairIndex,  \* the getPairIndex signal
    getChart,    \* the getChart signal: undefined or the chart's labels and data
    reads,       \* the FileReader reads in flight
    selects,     \* how many files have been selected so far
    phasors,     \* processData's phasors in the last plot that reached the chart
    freqs        \* plot's freqs in the last plot that reached the chart

fftVars == <<fn, frate, farr, fout, fpc>>

parseVars == <<content, lines, header, dataLines, rows, scanned, data, numCols,
               pairedData, numPairs, issues, pc>>

appVars == <<parsedData, status, error, getFrequency, getPairIndex, getChart, reads, selects,
             phasors, freqs>>

vars == <<fftVars, parseVars, appVars>>

(***************************************************************************)
(* Numbers.  The frequency labels are IEEE doubles in the program; here    *)
(* they are exact rationals in lowest terms with a positive denominator,   *)
(* so the products and quotients of fftfreq are computed, not assumed.     *)
(***************************************************************************)
Abs(x) == IF x < 0 THEN -x ELSE x

RECURSIVE Gcd(_, _)
Gcd(a, b) == IF b = 0 THEN a ELSE Gcd(b, a % b)

\* the rational p/q (q # 0) in lowest terms, denominator positive
Rat(p, q) ==
    LET g == Gcd(Abs(p), Abs(q))
        s == IF q < 0 THEN -1 ELSE 1
    IN  [num |-> (s * p) \div g, den |-> (s * q) \div g]

RInt(k) == [num |-> k, den |-> 1]
RMul(a, b) == Rat(a.num * b.num, a.den * b.den)
\* 1 / a, for a # 0
RInv(a) == Rat(a.den, a.num)
RLeq(a, b) == a.num * b.den <= b.num * a.den
RLt(a, b) == a.num * b.den < b.num * a.den

\* all sequences over S of length 0..m
BoundedSeq(S, m) == UNION {[1..k -> S] : k \in 0..m}

\* Math.ceil(n / 2) and Math.floor(n / 2) for an integer n >= 0
CeilHalf(n) == (n + 1) \div 2
FloorHalf(n) == n \div 2

(***************************************************************************)
(* fftfreq, src/lib/fft-utils.ts lines 1-8.                                *)
(***************************************************************************)
\* the variant with the comparison against the integer half
fftfreqFloorCompare(n, frequency) ==
    [j \in 1..n |->
        LET i == j - 1
            factor == RInv(RMul(RInt(n), RInv(RInt(frequency))))
        IN  RMul(RInt(IF i < FloorHalf(n) THEN i ELSE i - n), factor)]

\* freqs[i] = (i < n / 2 ? i : i - n) * factor, factor = 1.0 / (n * (1 / frequency));
\* i < n / 2 is a comparison of reals: i < n/2 iff 2 i < n
fftfreq(n, frequency) ==
    [j \in 1..n |->
        LET i == j - 1
            factor == RInv(RMul(RInt(n), RInv(RInt(frequency))))
        IN  RMul(RInt(IF 2 * i < n THEN i ELSE i - n), factor)]

(***************************************************************************)
(* fftshift, src/lib/fft-utils.ts lines 10-14.                             *)
(***************************************************************************)
\* arr.slice(from) and arr.slice(0, to), 0-based as in the program
SliceFrom(arr, from) == SubSeq(arr, from + 1, Len(arr))
SliceTo(arr, to) == SubSeq(arr, 1, to)

\* the variant that splits at Math.floor(n / 2)
fftshiftFloor(arr) ==
    LET n == Len(arr)
        half == FloorHalf(n)
    IN  SliceFrom(arr, half) \o SliceTo(arr, half)

\* half = Math.ceil(n / 2); [...arr.slice(half), ...arr.slice(0, half)]
fftshift(arr) ==
    LET n == Len(arr)
        half == CeilHalf(n)
    IN  SliceFrom(arr, half) \o SliceTo(arr, half)

\* the utilities are not in use (another specification is running)
FftIdle ==
    /\ fn = 0
    /\ frate = 1
    /\ farr = <<>>
    /\ fout = <<>>
    /\ fpc = "idle"

(***************************************************************************)
(* The parsing pipeline, ~/schemas (src/unnamed/part_001): a text is       *)
(* represented by the sequence of its lines, and a line by the sequence of *)
(* its whitespace-separated tokens (a blank line has none), which is what  *)
(* trim(), split("\n") and split(/\s+/) make of it.                        *)
(***************************************************************************)
\* the tokens a line is made of: two numerals and a word
Tokens == {"1", "2", "x"}

\* JavaScript values the pipeline handles
Finite(v) == [t |-> "number", finite |-> TRUE, v |-> v]
NaN == [t |-> "number", finite |-> FALSE, v |-> 0]
Undefined == [t |-> "undefined", finite |-> FALSE, v |-> 0]

\* Number(token)
Number(tok) ==
    IF tok = "1" THEN Finite(1) ELSE IF tok = "2" THEN Finite(2) ELSE NaN

\* Number.isFinite(value)
NumberIsFinite(value) == value.t = "number" /\ value.finite

\* parts.map(Number)
MapNumber(parts) == [k \in 1..Len(parts) |-> Number(parts[k])]

\* numbers.every(Number.isFinite)
AllFinite(numbers) == \A k \in 1..Len(numbers) : NumberIsFinite(numbers[k])

\* header: string[] | null
NoHeader == [present |-> FALSE, titles |-> <<>>]
HeaderOf(parts) == [present |-> TRUE, titles |-> parts]

\* ctx.addIssue({code: "custom", message, path}); row, found and expected are
\* the numbers the message interpolates (0 where it has none)
Issue(message, path, row, found, expected) ==
    [message |-> message, path |-> path, row |-> row, found |-> found,
     expected |-> expected]

\* the messages of the issues, with the interpolated numbers left as {row},
\* {found} and {expected}
MsgNoContent == "No content provided"
MsgNoRows == "No valid data rows found"
MsgNoLines == "No lines provided"
MsgHeaderOnly == "Header present but no data rows found"
MsgInvalidRow == "Invalid data row {row}: must contain even number of finite numbers (>=2), found {found} parts with non-numeric values"
MsgNonUniform == "Data row {row} has different number of columns ({found}), expected {expected}"
MsgHeaderLength == "Header has {found} titles, but data has {expected} columns"
MsgOddColumns == "Number of columns must be even for pairing"
MsgOutput == "Invalid row"

IsBlank(line) == Len(line) = 0

\* trimAndSplit: content.trim() is empty when every line is blank
trimAndSplit(c) ==
    LET trimmedEmpty == \A k \in 1..Len(c) : IsBlank(c[k])
        ls == SelectSeq(c, LAMBDA line : ~IsBlank(line))
    IN  IF trimmedEmpty
        THEN [lines |-> <<>>,
              issues |-> <<Issue(MsgNoContent, <<>>, 0, 0, 0)>>]
        ELSE IF Len(ls) = 0
        THEN [lines |-> <<>>,
              issues |-> <<Issue(MsgNoRows, <<>>, 0, 0, 0)>>]
        ELSE [lines |-> ls, issues |-> <<>>]

\* the variant of the first-line test that forgets the parity of the count
FirstLineIsDataNoParity(numbers) ==
    AllFinite(numbers) /\ Len(numbers) >= 2

\* allFinite && len >= 2 && len % 2 === 0
FirstLineIsData(numbers) ==
    AllFinite(numbers) /\ Len(numbers) >= 2 /\ Len(numbers) % 2 = 0

\* the variant of detectHeader that does not look whether lines follow the header
detectHeaderNoEmptyCheck(ls, header0, dataLines0) ==
    IF Len(ls) = 0
    THEN [header |-> header0, dataLines |-> dataLines0,
          issues |-> <<Issue(MsgNoLines, <<>>, 0, 0, 0)>>]
    ELSE LET parts == ls[1]
             numbers == MapNumber(parts)
         IN  IF FirstLineIsData(numbers)
             THEN [header |-> NoHeader, dataLines |-> ls, issues |-> <<>>]
             ELSE [header |-> HeaderOf(parts), dataLines |-> Tail(ls),
                   issues |-> <<>>]

\* detectHeader: header and dataLines are the transform's locals as it returns
detectHeader(ls, header0, dataLines0) ==
    IF Len(ls) = 0
    THEN [header |-> header0, dataLines |-> dataLines0,
          issues |-> <<Issue(MsgNoLines, <<>>, 0, 0, 0)>>]
    ELSE LET parts == ls[1]
             numbers == MapNumber(parts)
         IN  IF FirstLineIsData(numbers)
             THEN [header |-> NoHeader, dataLines |-> ls, issues |-> <<>>]
             ELSE [header |-> HeaderOf(parts),
                   dataLines |-> Tail(ls),
                   issues |-> IF Len(Tail(ls)) = 0
                              THEN <<Issue(MsgHeaderOnly,
                                           <<>>, 0, 0, 0)>>
                              ELSE <<>>]

\* the variant of the row test that looks only at the tokens that are finite
RowInvalidFiltered(numbers) ==
    LET finiteNumbers == SelectSeq(numbers, NumberIsFinite)
    IN  Len(finiteNumbers) < 2 \/ Len(finiteNumbers) % 2 # 0

\* the variant of the row test that forgets the parity of the count
RowInvalidNoParity(numbers) ==
    ~AllFinite(numbers) \/ Len(numbers) < 2

\* !allFinite || len < 2 || len % 2 !== 0
RowInvalid(numbers) ==
    ~AllFinite(numbers) \/ Len(numbers) < 2 \/ Len(numbers) % 2 # 0

\* the loop of parseDataRows from 0-based index on: it returns from the
\* transform at the first invalid line
RECURSIVE ScanDataLines(_, _, _)
ScanDataLines(dls, index, acc) ==
    IF index >= Len(dls)
    THEN [rows |-> acc, scanned |-> Len(dls), issues |-> <<>>]
    ELSE LET numbers == MapNumber(dls[index + 1])
         IN  IF RowInvalid(numbers)
             THEN [rows |-> acc, scanned |-> index + 1,
                   issues |-> <<Issue(MsgInvalidRow, <<"dataLines", index>>,
                                      index + 1, Len(numbers), 0)>>]
             ELSE ScanDataLines(dls, index + 1, Append(acc, numbers))

\* parseDataRows
parseDataRows(dls) ==
    LET r == ScanDataLines(dls, 0, <<>>)
    IN  IF r.issues # <<>>
        THEN r
        ELSE IF Len(r.rows) = 0
        THEN [rows |-> r.rows, scanned |-> r.scanned,
              issues |-> <<Issue(MsgNoRows, <<"dataLines">>,
                                 0, 0, 0)>>]
        ELSE r

\* the loop of checkUniform from 0-based index i on
RECURSIVE ScanUniform(_, _, _)
ScanUniform(rs, i, firstLen) ==
    IF i >= Len(rs)
    THEN <<>>
    ELSE LET rowLength == Len(rs[i + 1])
         IN  IF rowLength # firstLen
             THEN <<Issue(MsgNonUniform,
                          <<"rows", i>>, i + 1, rowLength, firstLen)>>
             ELSE ScanUniform(rs, i + 1, firstLen)

\* the loop of checkUniform without the return at the first mismatch
RECURSIVE ScanUniformAll(_, _, _)
ScanUniformAll(rs, i, firstLen) ==
    IF i >= Len(rs)
    THEN <<>>
    ELSE LET rowLength == Len(rs[i + 1])
         IN  (IF rowLength # firstLen
              THEN <<Issue(MsgNonUniform, <<"rows", i>>, i + 1, rowLength, firstLen)>>
              ELSE <<>>) \o ScanUniformAll(rs, i + 1, firstLen)

\* the variant of checkUniform that goes on after a mismatch
checkUniformNoReturn(rs) ==
    LET firstLen == Len(rs[1])
    IN  [data |-> rs, numCols |-> firstLen,
         issues |-> ScanUniformAll(rs, 1, firstLen)]

\* the variant of checkUniform that compares no row
checkUniformNoCompare(rs) ==
    [data |-> rs, numCols |-> Len(rs[1]), issues |-> <<>>]

\* checkUniform
checkUniform(rs) ==
    LET firstLen == Len(rs[1])
    IN  [data |-> rs, numCols |-> firstLen, issues |-> ScanUniform(rs, 1, firstLen)]

\* the variant of the pairing loop that advances by one token instead of two
PairsOfOverlapping(row) ==
    [j \in 1..CeilHalf(Len(row)) |->
        <<row[j], IF j + 1 <= Len(row) THEN row[j + 1] ELSE Undefined>>]

\* for (let i = 0; i < row.length; i += 2) pairs.push([row[i], row[i + 1]])
PairsOf(row) ==
    [j \in 1..CeilHalf(Len(row)) |->
        <<row[2 * j - 1], IF 2 * j <= Len(row) THEN row[2 * j] ELSE Undefined>>]

\* the variant of splitIntoPairs that tests the parity of numCols first
splitIntoPairsEvenFirst(hd, d, nc) ==
    IF nc % 2 # 0
    THEN [rows |-> <<>>, numPairs |-> 0,
          issues |-> <<Issue(MsgOddColumns,
                             <<"numCols">>, 0, 0, 0)>>]
    ELSE IF hd.present /\ Len(hd.titles) # nc
    THEN [rows |-> <<>>, numPairs |-> 0,
          issues |-> <<Issue(MsgHeaderLength,
                             <<"header">>, 0, Len(hd.titles), nc)>>]
    ELSE [rows |-> [k \in 1..Len(d) |-> PairsOf(d[k])],
          numPairs |-> nc \div 2,
          issues |-> <<>>]

\* splitIntoPairs
splitIntoPairs(hd, d, nc) ==
    IF hd.present /\ Len(hd.titles) # nc
    THEN [rows |-> <<>>, numPairs |-> 0,
          issues |-> <<Issue(MsgHeaderLength,
                             <<"header">>, 0, Len(hd.titles), nc)>>]
    ELSE IF nc % 2 # 0
    THEN [rows |-> <<>>, numPairs |-> 0,
          issues |-> <<Issue(MsgOddColumns,
                             <<"numCols">>, 0, 0, 0)>>]
    ELSE [rows |-> [k \in 1..Len(d) |-> PairsOf(d[k])],
          numPairs |-> nc \div 2,
          issues |-> <<>>]

\* finiteNumber: z.number() refined by Number.isFinite
FiniteNumberOk(value) == value.t = "number" /\ NumberIsFinite(value)

\* dataRowSchema: a non-empty array of [finiteNumber, finiteNumber]
DataRowOk(row) ==
    /\ Len(row) >= 1
    /\ \A j \in 1..Len(row) : FiniteNumberOk(row[j][1]) /\ FiniteNumberOk(row[j][2])

\* outputSchema: one issue for every row that is not a dataRowSchema
RECURSIVE OutputIssues(_, _)
OutputIssues(prs, r) ==
    IF r >= Len(prs)
    THEN <<>>
    ELSE (IF DataRowOk(prs[r + 1])
          THEN <<>>
          ELSE <<Issue(MsgOutput, <<"rows", r>>, r + 1, 0, 0)>>)
         \o OutputIssues(prs, r + 1)

outputSchema(prs) == [issues |-> OutputIssues(prs, 0)]

\* parsedData = null, and a parsed Dataset
NullData ==
    [present |-> FALSE, header |-> NoHeader, rows |-> <<>>, numPairs |-> 0,
     numCols |-> 0]

Dataset(hd, prs, np, nc) ==
    [present |-> TRUE, header |-> hd, rows |-> prs, numPairs |-> np, numCols |-> nc]

\* getChart() === undefined, and a chart with its labels and its data
NoChart == [present |-> FALSE, labels |-> <<>>, data |-> <<>>]
ChartOf(labels, magnitudes) == [present |-> TRUE, labels |-> labels, data |-> magnitudes]

\* error() === null
NoError == "null"

\* the App is not in use (another specification is running)
AppIdle ==
    /\ parsedData = NullData
    /\ status = "Idle"
    /\ error = NoError
    /\ getFrequency = 1
    /\ getPairIndex = 0
    /\ getChart = NoChart
    /\ reads = {}
    /\ selects = 0
    /\ phasors = <<>>
    /\ freqs = <<>>

(***************************************************************************)
(* One run of dataSchema.parse: the stages of the pipe in order; a stage   *)
(* that added an issue ends the run, no later stage is entered.            *)
(***************************************************************************)
ParseIdle ==
    /\ content = <<>>
    /\ lines = <<>>
    /\ header = NoHeader
    /\ dataLines = <<>>
    /\ rows = <<>>
    /\ scanned = 0
    /\ data = <<>>
    /\ numCols = 0
    /\ pairedData = <<>>
    /\ numPairs = 0
    /\ issues = <<>>
    /\ pc = "idle"

\* the variant of pipe that enters the next stage whatever this one reported
NextStageAlways(stageIssues, next) == next

\* pipe: the next stage runs only when this one added no issue
NextStage(stageIssues, next) == IF stageIssues = <<>> THEN next ELSE "failed"

TrimAndSplit ==
    /\ pc = "trimAndSplit"
    /\ LET r == trimAndSplit(content)
       IN  /\ lines' = r.lines
           /\ issues' = issues \o r.issues
           /\ pc' = NextStage(r.issues, "detectHeader")
    /\ UNCHANGED <<content, header, dataLines, rows, scanned, data, numCols,
                   pairedData, numPairs, fftVars, appVars>>

DetectHeader ==
    /\ pc = "detectHeader"
    /\ LET r == detectHeader(lines, header, dataLines)
       IN  /\ header' = r.header
           /\ dataLines' = r.dataLines
           /\ issues' = issues \o r.issues
           /\ pc' = NextStage(r.issues, "parseDataRows")
    /\ UNCHANGED <<content, lines, rows, scanned, data, numCols,
                   pairedData, numPairs, fftVars, appVars>>

ParseDataRows ==
    /\ pc = "parseDataRows"
    /\ LET r == parseDataRows(dataLines)
       IN  /\ rows' = r.rows
           /\ scanned' = r.scanned
           /\ issues' = issues \o r.issues
           /\ pc' = NextStage(r.issues, "checkUniform")
    /\ UNCHANGED <<content, lines, header, dataLines, data, numCols,
                   pairedData, numPairs, fftVars, appVars>>

CheckUniform ==
    /\ pc = "checkUniform"
    /\ LET r == checkUniform(rows)
       IN  /\ data' = (IF r.issues = <<>> THEN r.data ELSE data)
           /\ numCols' = (IF r.issues = <<>> THEN r.numCols ELSE numCols)
           /\ issues' = issues \o r.issues
           /\ pc' = NextStage(r.issues, "splitIntoPairs")
    /\ UNCHANGED <<content, lines, header, dataLines, rows, scanned,
                   pairedData, numPairs, fftVars, appVars>>

SplitIntoPairs ==
    /\ pc = "splitIntoPairs"
    /\ LET r == splitIntoPairs(header, data, numCols)
       IN  /\ pairedData' = r.rows
           /\ numPairs' = r.numPairs
           /\ issues' = issues \o r.issues
           /\ pc' = NextStage(r.issues, "outputSchema")
    /\ UNCHANGED <<content, lines, header, dataLines, rows, scanned, data,
                   numCols, fftVars, appVars>>

OutputSchema ==
    /\ pc = "outputSchema"
    /\ LET r == outputSchema(pairedData)
       IN  /\ issues' = issues \o r.issues
           /\ pc' = NextStage(r.issues, "done")
    /\ UNCHANGED <<content, lines, header, dataLines, rows, scanned, data,
                   numCols, pairedData, numPairs, fftVars, appVars>>

\* the line lengths of a text: at most MaxLines lines of at most MaxTok tokens,
\* at most MaxTotal tokens in all
RECURSIVE SumSeq(_)
SumSeq(s) == IF Len(s) = 0 THEN 0 ELSE Head(s) + SumSeq(Tail(s))

Shapes == {sh \in BoundedSeq(0..MaxTok, MaxLines) : SumSeq(sh) <= MaxTotal}

\* the text whose lines have the lengths of shape and whose tokens, read line
\* after line, are those of flat
TextOf(shape, flat) ==
    [k \in 1..Len(shape) |->
        LET before == SumSeq(SubSeq(shape, 1, k - 1))
        IN  [j \in 1..shape[k] |-> flat[before + j]]]

\* SpecParse: dataSchema.parse on every text within the bounds
ParseInit ==
    /\ \E shape \in Shapes :
          \E flat \in [1..SumSeq(shape) -> Tokens] : content = TextOf(shape, flat)
    /\ lines = <<>>
    /\ header = NoHeader
    /\ dataLines = <<>>
    /\ rows = <<>>
    /\ scanned = 0
    /\ data = <<>>
    /\ numCols = 0
    /\ pairedData = <<>>
    /\ numPairs = 0
    /\ issues = <<>>
    /\ pc = "trimAndSplit"
    /\ FftIdle
    /\ AppIdle

ParseNext ==
    \/ TrimAndSplit
    \/ DetectHeader
    \/ ParseDataRows
    \/ CheckUniform
    \/ SplitIntoPairs
    \/ OutputSchema

SpecParse == ParseInit /\ [][ParseNext]_vars

\* the values of the numeric tokens
FiniteValues == {Number(tok) : tok \in {t \in Tokens : NumberIsFinite(Number(t))}}

\* the rows parseDataRows lets through: an even number >= 2 of finite numbers
ValidRows == UNION {[1..l -> FiniteValues] : l \in {m \in 2..MaxTok : m % 2 = 0}}

\* SpecUniform: checkUniform (and the stages after it) on every output of
\* parseDataRows within the bounds
UniformInit ==
    /\ content = <<>>
    /\ lines = <<>>
    /\ header \in {NoHeader, HeaderOf(<<"x", "x">>)}
    /\ dataLines = <<>>
    /\ \E n \in 1..MaxRows : rows \in [1..n -> ValidRows]
    /\ scanned = Len(rows)
    /\ data = <<>>
    /\ numCols = 0
    /\ pairedData = <<>>
    /\ numPairs = 0
    /\ issues = <<>>
    /\ pc = "checkUniform"
    /\ FftIdle
    /\ AppIdle

UniformNext ==
    \/ CheckUniform
    \/ SplitIntoPairs
    \/ OutputSchema

SpecUniform == UniformInit /\ [][UniformNext]_vars

\* SpecSplit: splitIntoPairs (and outputSchema after it) on every
\* {header, data, numCols} within the bounds, data being rows of numCols numbers
SplitInit ==
    /\ content = <<>>
    /\ lines = <<>>
    /\ header \in {NoHeader} \cup {HeaderOf([k \in 1..h |-> "x"]) : h \in 1..MaxTok}
    /\ dataLines = <<>>
    /\ rows = <<>>
    /\ scanned = 0
    /\ numCols \in 1..MaxTok
    /\ \E n \in 1..MaxSplitRows : data \in [1..n -> [1..numCols -> FiniteValues]]
    /\ pairedData = <<>>
    /\ numPairs = 0
    /\ issues = <<>>
    /\ pc = "splitIntoPairs"
    /\ FftIdle
    /\ AppIdle

SplitNext ==
    \/ SplitIntoPairs
    \/ OutputSchema

SpecSplit == SplitInit /\ [][SplitNext]_vars

(***************************************************************************)
(* The App component, src/components/App.tsx lines 1-258.  Every handler   *)
(* runs to completion on the event loop, so each is one action.            *)
(***************************************************************************)
\* dataSchema.parse(content): the stages of the pipe in order, the first
\* stage that adds an issue ends the parse (parse then throws a ZodError)
dataSchema(c) ==
    LET s1 == trimAndSplit(c)
        s2 == detectHeader(s1.lines, NoHeader, <<>>)
        s3 == parseDataRows(s2.dataLines)
        s4 == checkUniform(s3.rows)
        s5 == splitIntoPairs(s2.header, s4.data, s4.numCols)
        s6 == outputSchema(s5.rows)
        Thrown(stageIssues) == [success |-> FALSE, data |-> NullData, issues |-> stageIssues]
    IN  IF s1.issues # <<>> THEN Thrown(s1.issues)
        ELSE IF s2.issues # <<>> THEN Thrown(s2.issues)
        ELSE IF s3.issues # <<>> THEN Thrown(s3.issues)
        ELSE IF s4.issues # <<>> THEN Thrown(s4.issues)
        ELSE IF s5.issues # <<>> THEN Thrown(s5.issues)
        ELSE IF s6.issues # <<>> THEN Thrown(s6.issues)
        ELSE [success |-> TRUE,
              data |-> Dataset(s2.header, s5.rows, s5.numPairs, s4.numCols),
              issues |-> <<>>]

\* the files the user has at hand (the text of no lines is the empty
\* string): an empty file, one row, two rows of two
\* pairs, a header with three rows, and a file with an invalid row
AppFiles ==
    { <<>>,
      << <<"1", "2">> >>,
      << <<"1", "2", "2", "1">>, <<"2", "1", "1", "2">> >>,
      << <<"x", "x">>, <<"1", "2">>, <<"2", "1">>, <<"1", "1">> >>,
      << <<"1", "2">>, <<"x">> >> }

\* the messages the App shows
ErrNoData == "No data loaded. Please upload a file first."
ErrPairIndex == "Invalid pair index: {pairIndex + 1}. Must be between 1 and {numPairs}."
ErrCanvas == "Canvas not available. Please refresh the page."
ErrPlotting == "Plotting error: {message}"
ErrContent == "Failed to read file content."
ErrParse == "Parse error: {message}"
ErrRead == "Failed to read file."

\* the canvas element is set by its ref when the component is mounted
CanvasAvailable == TRUE

\* what the user types into the two number inputs
FrequencyInputs == {"", "0", "2", "-3"}
PairIndexInputs == {"", "0", "1", "2", "3"}

\* parseFloat(val) and parseInt(val) on those
ParseNumber(val) ==
    IF val = "0" THEN Finite(0)
    ELSE IF val = "1" THEN Finite(1)
    ELSE IF val = "2" THEN Finite(2)
    ELSE IF val = "3" THEN Finite(3)
    ELSE IF val = "-3" THEN Finite(-3)
    ELSE NaN

\* x || fallback, for a number x: NaN and 0 are falsy
OrElse(x, fallback) == IF x.finite /\ x.v # 0 THEN x.v ELSE fallback

Max(a, b) == IF a >= b THEN a ELSE b

\* the values the external transform may leave in one bin, as [re, im]
PhasorValues == {<<1, 0>>, <<0, 2>>}

\* 20 * log10(sqrt(re^2 + im^2) + 1e-12), held as re^2 + im^2, of which it is a
\* strictly increasing function
MagnitudeDb(p) == p[1] * p[1] + p[2] * p[2]

\* the variant of processData with a shift of its own that splits at the floor
processDataOwnShift(prs, index, spectrum) ==
    LET signal == [r \in 1..Len(prs) |-> prs[r][index + 1]]
        phs == [i \in 1..Len(signal) |-> <<spectrum[i][1], spectrum[i][2]>>]
        phasors_shifted == fftshiftFloor(phs)
    IN  [magnitude_db |-> [k \in 1..Len(phasors_shifted) |->
                              MagnitudeDb(phasors_shifted[k])],
         signalLength |-> Len(signal),
         phasors |-> phs]

\* processData(rows, pairIndex); spectrum is what fft(realInput, imagInput)
\* leaves in the two arrays
processData(prs, index, spectrum) ==
    LET signal == [r \in 1..Len(prs) |-> prs[r][index + 1]]
        phs == [i \in 1..Len(signal) |-> <<spectrum[i][1], spectrum[i][2]>>]
        phasors_shifted == fftshift(phs)
    IN  [magnitude_db |-> [k \in 1..Len(phasors_shifted) |->
                              MagnitudeDb(phasors_shifted[k])],
         signalLength |-> Len(signal),
         phasors |-> phs]

AppInit ==
    /\ AppIdle
    /\ FftIdle
    /\ ParseIdle

\* file-upload onChange with a file chosen
SelectFile ==
    /\ selects < MaxSelects
    /\ \E file \in AppFiles :
          reads' = reads \cup {[id |-> selects + 1, content |-> file]}
    /\ selects' = selects + 1
    /\ status' = "Parsing file data..."
    /\ error' = NoError
    /\ UNCHANGED <<parsedData, getFrequency, getPairIndex, getChart, phasors, freqs,
                   fftVars, parseVars>>

\* the variant of reader.onload whose catch block leaves parsedData alone
ReaderOnloadKeepsData ==
    /\ \E read \in reads :
          /\ reads' = reads \ {read}
          /\ IF read.content = <<>>
             THEN /\ error' = ErrContent
                  /\ status' = "Idle"
                  /\ UNCHANGED parsedData
             ELSE LET parsed == dataSchema(read.content)
                  IN  IF parsed.success
                      THEN /\ parsedData' = parsed.data
                           /\ status' = "Idle"
                           /\ UNCHANGED error
                      ELSE /\ error' = ErrParse
                           /\ status' = "Idle"
                           /\ UNCHANGED parsedData
    /\ UNCHANGED <<getFrequency, getPairIndex, getChart, selects, phasors, freqs,
                   fftVars, parseVars>>

\* reader.onload
ReaderOnload ==
    /\ \E read \in reads :
          /\ reads' = reads \ {read}
          /\ IF read.content = <<>>
             THEN /\ error' = ErrContent
                  /\ status' = "Idle"
                  /\ UNCHANGED parsedData
             ELSE LET parsed == dataSchema(read.content)
                  IN  IF parsed.success
                      THEN /\ parsedData' = parsed.data
                           /\ status' = "Idle"
                           /\ UNCHANGED error
                      ELSE /\ error' = ErrParse
                           /\ status' = "Idle"
                           /\ parsedData' = NullData
    /\ UNCHANGED <<getFrequency, getPairIndex, getChart, selects, phasors, freqs,
                   fftVars, parseVars>>

\* reader.onerror
ReaderOnerror ==
    /\ \E read \in reads : reads' = reads \ {read}
    /\ error' = ErrRead
    /\ status' = "Idle"
    /\ UNCHANGED <<parsedData, getFrequency, getPairIndex, getChart, selects, phasors,
                   freqs, fftVars, parseVars>>

\* frequency onInput
FrequencyInput ==
    /\ \E val \in FrequencyInputs : getFrequency' = OrElse(ParseNumber(val), 1)
    /\ UNCHANGED <<parsedData, status, error, getPairIndex, getChart, reads, selects,
                   phasors, freqs, fftVars, parseVars>>

\* column pair onChange
PairIndexChange ==
    /\ \E val \in PairIndexInputs :
          LET index == OrElse(ParseNumber(val), 1) - 1
          IN  getPairIndex' = Max(0, index)
    /\ UNCHANGED <<parsedData, status, error, getFrequency, getChart, reads, selects,
                   phasors, freqs, fftVars, parseVars>>

\* the Dismiss button: clearError
Dismiss ==
    /\ error # NoError
    /\ error' = NoError
    /\ UNCHANGED <<parsedData, status, getFrequency, getPairIndex, getChart, reads,
                   selects, phasors, freqs, fftVars, parseVars>>

\* the Plot Spectrum button is disabled while parsedData is null
PlotEnabled == parsedData.present

\* plot, the onClick of the Plot Spectrum button
Plot ==
    /\ PlotEnabled
    /\ IF ~parsedData.present
       THEN /\ error' = ErrNoData
            /\ status' = "Idle"
            /\ UNCHANGED <<getChart, phasors, freqs>>
       ELSE IF getPairIndex < 0 \/ getPairIndex >= parsedData.numPairs
       THEN /\ error' = ErrPairIndex
            /\ status' = "Idle"
            /\ UNCHANGED <<getChart, phasors, freqs>>
       ELSE \E spectrum \in [1..Len(parsedData.rows) -> PhasorValues] :
               LET pd == processData(parsedData.rows, getPairIndex, spectrum)
                   fr == fftfreq(pd.signalLength, getFrequency)
                   freqs_shifted == fftshift(fr)
               IN  IF ~CanvasAvailable
                   THEN /\ error' = ErrCanvas
                        /\ status' = "Idle"
                        /\ UNCHANGED <<getChart, phasors, freqs>>
                   ELSE /\ error' = NoError
                        /\ getChart' = ChartOf(freqs_shifted, pd.magnitude_db)
                        /\ status' = IF getChart.present THEN "Plotting..." ELSE "Idle"
                        /\ phasors' = pd.phasors
                        /\ freqs' = fr
    /\ UNCHANGED <<parsedData, getFrequency, getPairIndex, reads, selects, fftVars,
                   parseVars>>

\* plot when the transform or the chart library throws: the catch block
PlotThrows ==
    /\ PlotEnabled
    /\ getPairIndex >= 0 /\ getPairIndex < parsedData.numPairs
    /\ error' = ErrPlotting
    /\ status' = "Idle"
    /\ UNCHANGED <<parsedData, getFrequency, getPairIndex, getChart, reads, selects,
                   phasors, freqs, fftVars, parseVars>>

Next ==
    \/ SelectFile
    \/ ReaderOnload
    \/ ReaderOnerror
    \/ FrequencyInput
    \/ PairIndexChange
    \/ Dismiss
    \/ Plot
    \/ PlotThrows

Spec == AppInit /\ [][Next]_vars

(***************************************************************************)
(* The utilities as pure functions: SpecFft draws n, the sample rate and   *)
(* arbitrary sequences (numbers or [re, im] pairs) and applies them.       *)
(***************************************************************************)
\* sample rates: the frequency input takes any number the user types,
\* negative ones included; 0 and NaN are replaced by 1.0 there
Rates == {-3, -1, 1, 2, 50, 100}

NumElems == {RInt(1), RInt(2)}
PairElems == {<<1, 2>>, <<2, 1>>}

FftInit ==
    /\ fn \in 0..MaxN
    /\ frate \in Rates
    /\ farr = <<>>
    /\ fout = <<>>
    /\ fpc = "start"
    /\ ParseIdle
    /\ AppIdle

Fftfreq ==
    /\ fpc = "start"
    /\ farr' = fftfreq(fn, frate)
    /\ fpc' = "freq"
    /\ UNCHANGED <<fn, frate, fout, parseVars, appVars>>

\* a caller hands fftshift a sequence of its own (numbers, or phasor pairs)
GivenSeq ==
    /\ fpc = "start"
    /\ \E s \in BoundedSeq(NumElems, MaxSeqLen) \cup BoundedSeq(PairElems, MaxSeqLen) :
          farr' = s
    /\ fpc' = "given"
    /\ UNCHANGED <<fn, frate, fout, parseVars, appVars>>

Fftshift ==
    /\ fpc \in {"freq", "given"}
    /\ fout' = fftshift(farr)
    /\ fpc' = IF fpc = "freq" THEN "shiftedFreq" ELSE "shiftedGiven"
    /\ UNCHANGED <<fn, frate, farr, parseVars, appVars>>

FftNext == Fftfreq \/ GivenSeq \/ Fftshift

SpecFft == FftInit /\ [][FftNext]_vars

(***************************************************************************)
(* Properties of the spectral utilities, checked under SpecFft.            *)
(***************************************************************************)
\* out is arr with arr[h .. end] moved before arr[0 .. h), position by position
ShiftedAt(arr, out, h) ==
    /\ Len(out) = Len(arr)
    /\ \A k \in 1..Len(arr) :
          out[k] = IF k <= Len(arr) - h THEN arr[h + k] ELSE arr[k - (Len(arr) - h)]

Shifted == fpc \in {"shiftedFreq", "shiftedGiven"}

\* C1 (as stated): fftshift returns sequence[floor(n/2) .. end] followed by
\* sequence[0 .. floor(n/2)), for odd as well as even n, and the result has length n.
C1_SplitAtFloor == Shifted => ShiftedAt(farr, fout, FloorHalf(Len(farr)))

\* C1 (amended): fftshift returns sequence[ceil(n/2) .. end] followed by
\* sequence[0 .. ceil(n/2)); the split point is ceil(n/2), which is floor(n/2)
\* for even n only, and the result has length n.
C1_SplitAtCeil ==
    Shifted =>
        /\ ShiftedAt(farr, fout, CeilHalf(Len(farr)))
        /\ (Len(farr) % 2 = 0 => ShiftedAt(farr, fout, FloorHalf(Len(farr))))

\* an odd-length sequence with distinct neighbours has been shifted
C1_Witness ==
    /\ fpc = "shiftedGiven"
    /\ Len(farr) = 3
    /\ farr[1] # farr[2]
    /\ fout = <<farr[3], farr[1], farr[2]>>

NonDecreasing(s) == \A k \in 1..(Len(s) - 1) : RLeq(s[k], s[k + 1])

IntSeq(s) == [k \in 1..Len(s) |-> RInt(s[k])]

\* C2 (as stated): for every n >= 1 and every sample rate,
\* fftshift(fftfreq(n, sampleRate)) is non-decreasing.
C2_NonDecreasingAnyRate ==
    (fpc = "shiftedFreq" /\ fn >= 1) => NonDecreasing(fout)

\* C2 (amended): for every n >= 1 and every positive sample rate,
\* fftshift(fftfreq(n, sampleRate)) is non-decreasing, and the two reference
\* vectors come out as fftshift(fftfreq(5,100)) = [-40,-20,0,20,40] and
\* fftshift(fftfreq(10,50)) = [-25,-20,-15,-10,-5,0,5,10,15,20].
C2_NonDecreasingPositiveRate ==
    (fpc = "shiftedFreq" /\ fn >= 1 /\ frate > 0) =>
        /\ NonDecreasing(fout)
        /\ (fn = 5 /\ frate = 100) => fout = IntSeq(<<-40, -20, 0, 20, 40>>)
        /\ (fn = 10 /\ frate = 50) =>
              fout = IntSeq(<<-25, -20, -15, -10, -5, 0, 5, 10, 15, 20>>)

\* the first reference vector has been computed and shifted
C2_Witness ==
    /\ fpc = "shiftedFreq"
    /\ fn = 5
    /\ frate = 100
    /\ fout = IntSeq(<<-40, -20, 0, 20, 40>>)

\* fftfreq returned n values, bin(i) = i * (r/n) when i < n/2 (the exact half)
\* and (i - n) * (r/n) otherwise
BinFormula ==
    /\ Len(farr) = fn
    /\ \A i \in 0..(fn - 1) :
          farr[i + 1] = Rat((IF 2 * i < fn THEN i ELSE i - fn) * frate, fn)

\* bins 0..ceil(n/2)-1 are non-negative and ascending, the remaining bins are
\* negative and ascending toward zero
BinLayout ==
    /\ \A i \in 0..(CeilHalf(fn) - 1) :
          /\ RLeq(RInt(0), farr[i + 1])
          /\ (i > 0 => RLt(farr[i], farr[i + 1]))
    /\ \A i \in CeilHalf(fn)..(fn - 1) :
          /\ RLt(farr[i + 1], RInt(0))
          /\ (i > CeilHalf(fn) => RLt(farr[i], farr[i + 1]))

\* C3 (as stated): for every n >= 1 and sample rate r, fftfreq(n, r) returns exactly n
\* values given by the bin formula, so the first ceil(n/2) bins are non-negative
\* ascending and the rest negative ascending; fftfreq(0, r) is empty.
C3_BinsAnyRate == fpc = "freq" => (BinFormula /\ BinLayout)

\* C3 (amended): for every n >= 0 and sample rate r, fftfreq(n, r) returns exactly n
\* values given by the bin formula (none for n = 0); for a positive sample rate the
\* first ceil(n/2) bins are non-negative ascending and the rest negative ascending.
C3_BinsPositiveRate ==
    fpc = "freq" => (BinFormula /\ (frate > 0 => BinLayout))

\* fftfreq(5, 100) has been computed: the odd n where the exact half matters
C3_Witness ==
    /\ fpc = "freq"
    /\ fn = 5
    /\ frate = 100
    /\ farr = IntSeq(<<0, 20, 40, -40, -20>>)

(***************************************************************************)
(* Properties of the parsing pipeline.                                     *)
(***************************************************************************)
\* the numerals among the tokens: the ones that parse to a finite number
NumericTokens == {"1", "2"}

\* a line has fewer than 2 tokens, an odd number of tokens, or a token that
\* does not parse to a finite number
LineInvalid(line) ==
    \/ Len(line) < 2
    \/ Len(line) % 2 = 1
    \/ \E k \in 1..Len(line) : line[k] \notin NumericTokens

IssuesWith(message) == {k \in 1..Len(issues) : issues[k].message = message}

\* C5: every Dataset of a successful parse has non-empty rows, an even
\* numCols = 2 * numPairs with numPairs >= 1, exactly numPairs pairs in every
\* row, and a header (if present) of length numCols.
C5_DatasetInvariants ==
    pc = "done" =>
        /\ issues = <<>>
        /\ Len(pairedData) >= 1
        /\ numCols % 2 = 0
        /\ numCols = 2 * numPairs
        /\ numPairs >= 1
        /\ \A r \in 1..Len(pairedData) : Len(pairedData[r]) = numPairs
        /\ (header.present => Len(header.titles) = numCols)

\* a text with a header and two different data lines has been parsed
C5_Witness ==
    /\ pc = "done"
    /\ header.present
    /\ Len(pairedData) = 2
    /\ pairedData[1] # pairedData[2]
    /\ numPairs = 1

\* the row-parsing stage has run
RowStageRan == scanned > 0

\* C6 (as stated): row parsing never short-circuits: every data line is checked
\* and the reported error lists the 1-based index of every invalid line.
C6_EveryInvalidLineReported ==
    (RowStageRan /\ Len(dataLines) > 0) =>
        /\ scanned = Len(dataLines)
        /\ {issues[k].row : k \in IssuesWith(MsgInvalidRow)}
              = {i \in 1..Len(dataLines) : LineInvalid(dataLines[i])}

\* C7: a data line is rejected exactly when it has fewer than 2 tokens, an odd
\* number of tokens or a token that is no finite number; no token of an accepted
\* line is ignored; and the parse fails whenever a data line is invalid.
C7_RejectedIffInvalid ==
    (RowStageRan /\ Len(dataLines) > 0) =>
        LET rejected == {issues[k].row : k \in IssuesWith(MsgInvalidRow)}
        IN  /\ (rejected # {}) <=> (\E i \in 1..Len(dataLines) : LineInvalid(dataLines[i]))
            /\ \A i \in 1..scanned : (i \in rejected) <=> LineInvalid(dataLines[i])
            /\ \A i \in 1..Len(rows) :
                  /\ Len(rows[i]) = Len(dataLines[i])
                  /\ \A j \in 1..Len(rows[i]) : rows[i][j] = Number(dataLines[i][j])
            /\ (rejected # {} => pc = "failed")

\* a line with two numerals and a word between them has been rejected
C7_Witness ==
    /\ pc = "failed"
    /\ RowStageRan
    /\ scanned <= Len(dataLines)
    /\ dataLines[scanned] = <<"1", "x", "2">>
    /\ IssuesWith(MsgInvalidRow) # {}

\* header detection has run
HeaderStageRan == Len(lines) > 0 /\ pc \notin {"trimAndSplit", "detectHeader"}

\* C8: the first line is data (no header, dataLines = all lines) iff all its
\* tokens parse to finite numbers and their count is even and >= 2; otherwise
\* header = its tokens and dataLines = the lines after it, in order.
C8_HeaderDetection ==
    HeaderStageRan =>
        LET first == lines[1]
            looksLikeData ==
                /\ \A k \in 1..Len(first) : first[k] \in NumericTokens
                /\ Len(first) % 2 = 0
                /\ Len(first) >= 2
        IN  /\ looksLikeData <=> ~header.present
            /\ looksLikeData => dataLines = lines
            /\ ~looksLikeData =>
                  /\ header.titles = first
                  /\ dataLines = SubSeq(lines, 2, Len(lines))

\* a first line of three numerals has been taken for a header
C8_Witness ==
    /\ HeaderStageRan
    /\ lines[1] = <<"1", "2", "1">>
    /\ header.present
    /\ Len(dataLines) = 1

\* the rows whose length differs from the first row's
Mismatching == {k \in 2..Len(rows) : Len(rows[k]) # Len(rows[1])}

SetMin(S) == CHOOSE m \in S : \A o \in S : m <= o

\* C9: the uniformity check reports exactly one error, for the lowest-indexed
\* row whose length differs from the first row's, with its 1-based index, its
\* length and the first row's length; it succeeds with numCols = the first
\* row's length iff there is no such row.
C9_UniformFailsFast ==
    (pc # "checkUniform" /\ Len(rows) > 0) =>
        LET reported == IssuesWith(MsgNonUniform)
        IN  /\ (reported = {}) <=> (Mismatching = {})
            /\ Mismatching = {} => (numCols = Len(rows[1]) /\ data = rows)
            /\ Mismatching # {} =>
                  /\ pc = "failed"
                  /\ Len(issues) = 1
                  /\ issues[1].row = SetMin(Mismatching)
                  /\ issues[1].found = Len(rows[SetMin(Mismatching)])
                  /\ issues[1].expected = Len(rows[1])

\* two rows differ from the first one and only the first of them is reported
C9_Witness ==
    /\ pc = "failed"
    /\ Len(rows) = 3
    /\ Mismatching = {2, 3}
    /\ Len(issues) = 1
    /\ issues[1].row = 2

HeaderLengthDiffers == header.present /\ Len(header.titles) # numCols

\* C10: the header length is checked before the parity of numCols: a header
\* of another length fails with the header-length error, also when numCols is
\* odd; the odd-column error is reported only when the header check passed.
C10_HeaderBeforeParity ==
    (pc \notin {"splitIntoPairs", "idle"} /\ Len(data) > 0) =>
        /\ HeaderLengthDiffers =>
              /\ pc = "failed"
              /\ IssuesWith(MsgHeaderLength) # {}
              /\ IssuesWith(MsgOddColumns) = {}
        /\ IssuesWith(MsgOddColumns) # {} => ~HeaderLengthDiffers
        /\ (~HeaderLengthDiffers /\ numCols % 2 = 1) =>
              /\ pc = "failed"
              /\ IssuesWith(MsgOddColumns) # {}

\* an input with a header of the wrong length and an odd numCols has failed
\* with the header-length error
C10_Witness ==
    /\ pc = "failed"
    /\ HeaderLengthDiffers
    /\ numCols % 2 = 1
    /\ Len(issues) = 1
    /\ issues[1].message = MsgHeaderLength

\* the flat numeric row a paired row came from
Flatten(pairedRow) ==
    [j \in 1..(2 * Len(pairedRow)) |->
        pairedRow[(j + 1) \div 2][IF j % 2 = 1 THEN 1 ELSE 2]]

\* the lines of the text that are not blank, without the header line
InputDataLines ==
    LET nonBlank == SelectSeq(content, LAMBDA line : ~IsBlank(line))
    IN  IF header.present THEN Tail(nonBlank) ELSE nonBlank

\* C11: a successful parse has one row per data line, in input order, and pair
\* k of row r is (value of token 2k, value of token 2k+1) of data line r for
\* every k in 0..numPairs-1, so no token is dropped, duplicated or reordered,
\* and flattening a paired row and pairing it again gives the same row.
C11_RowsAndPairsInOrder ==
    pc = "done" =>
        /\ dataLines = InputDataLines
        /\ Len(pairedData) = Len(dataLines)
        /\ \A r \in 1..Len(pairedData) :
              /\ Len(pairedData[r]) = numPairs
              /\ Len(dataLines[r]) = 2 * numPairs
              /\ \A k \in 0..(numPairs - 1) :
                    pairedData[r][k + 1] = <<Number(dataLines[r][2 * k + 1]),
                                             Number(dataLines[r][2 * k + 2])>>
              /\ Flatten(pairedData[r]) = MapNumber(dataLines[r])
              /\ PairsOf(Flatten(pairedData[r])) = pairedData[r]

\* the line "1 2 2 1" has been parsed into the two pairs (1, 2) and (2, 1)
C11_Witness ==
    /\ pc = "done"
    /\ numPairs = 2
    /\ dataLines[1] = <<"1", "2", "2", "1">>
    /\ pairedData[1] = <<<<Finite(1), Finite(2)>>, <<Finite(2), Finite(1)>>>>

\* the position in the pipe of the stage that reports an issue
StageOfIssue(issue) ==
    IF issue.message = MsgNoContent THEN 1
    ELSE IF issue.message = MsgNoRows /\ issue.path = <<>> THEN 1
    ELSE IF issue.message \in {MsgNoLines, MsgHeaderOnly} THEN 2
    ELSE IF issue.message \in {MsgInvalidRow, MsgNoRows} THEN 3
    ELSE IF issue.message = MsgNonUniform THEN 4
    ELSE IF issue.message \in {MsgHeaderLength, MsgOddColumns} THEN 5
    ELSE 6

\* the parse has ended in a failure at stage s: every issue is of stage s and
\* what the stages after s would have produced is not there
FailedAt(s) ==
    /\ \A k \in 1..Len(issues) : StageOfIssue(issues[k]) = s
    /\ s < 2 => (header = NoHeader /\ dataLines = <<>>)
    /\ s < 3 => (rows = <<>> /\ scanned = 0)
    /\ s < 4 => (data = <<>> /\ numCols = 0)
    /\ s < 5 => (pairedData = <<>> /\ numPairs = 0)

\* C12: a stage that reports an error ends the parse: no later stage runs, the
\* outcome is a failure without a Dataset, and every parse ends either with a
\* Dataset and no error or with a failure, never with part of a dataset.
C12_FailureAborts ==
    /\ [](/\ (issues # <<>>) <=> (pc = "failed")
          /\ pc = "failed" => FailedAt(StageOfIssue(issues[1]))
          /\ pc = "done" => (issues = <<>> /\ Len(pairedData) = Len(dataLines)))
    /\ [][pc \notin {"failed", "done"}]_vars

\* the uniformity check has failed and no pairs have been made
C12_Witness ==
    /\ pc = "failed"
    /\ Len(issues) = 1
    /\ issues[1].message = MsgNonUniform
    /\ Len(rows) = 2
    /\ pairedData = <<>>

\* C13: when the first line is taken for a header and no line follows it (so
\* also for any text of one line that is not a valid data row, such as an odd
\* number of numerals), the parse fails with the header-only error and with no
\* other error.
C13_HeaderOnly ==
    (HeaderStageRan /\ Len(lines) = 1) =>
        /\ (header.present <=> LineInvalid(lines[1]))
        /\ header.present =>
              /\ pc = "failed"
              /\ dataLines = <<>>
              /\ issues = <<Issue(MsgHeaderOnly, <<>>, 0, 0, 0)>>

\* a text of the single line "1 2 1" has failed with the header-only error
C13_Witness ==
    /\ pc = "failed"
    /\ lines = << <<"1", "2", "1">> >>
    /\ header.present
    /\ Len(issues) = 1
    /\ issues[1].message = MsgHeaderOnly

\* C15 (as stated): if every data line is invalid, the row-parsing stage fails
\* with the 'no valid rows' error, as it does when no line is scanned.
C15_AllInvalidIsNoValidRows ==
    (RowStageRan /\ \A i \in 1..Len(dataLines) : LineInvalid(dataLines[i])) =>
        /\ pc = "failed"
        /\ \E k \in IssuesWith(MsgNoRows) : issues[k].path = <<"dataLines">>

\* header detection, row parsing and the uniformity check have succeeded
UniformStagePassed == pc \in {"splitIntoPairs", "outputSchema", "done"}

\* C17: the even-column check and the final assembly are purely defensive: on
\* every input on which header detection, row parsing and the uniformity check
\* succeed and the header (if any) has numCols titles, neither the odd-column
\* error nor the final shape assertion (rows non-empty, every row a non-empty
\* sequence of pairs of finite numbers) fails.
C17_DefensiveChecksNeverFail ==
    /\ IssuesWith(MsgOddColumns) = {}
    /\ IssuesWith(MsgOutput) = {}
    /\ (UniformStagePassed /\ ~HeaderLengthDiffers) =>
          /\ numCols % 2 = 0
          /\ splitIntoPairs(header, data, numCols).issues = <<>>
          /\ outputSchema(splitIntoPairs(header, data, numCols).rows).issues = <<>>
    /\ pc = "outputSchema" =>
          /\ Len(pairedData) >= 1
          /\ \A r \in 1..Len(pairedData) : DataRowOk(pairedData[r])
    /\ (pc = "failed" /\ data # <<>>) => IssuesWith(MsgHeaderLength) # {}

\* a text with a header of two titles and two rows of two numbers has passed
\* the even-column check and the final assembly
C17_Witness ==
    /\ pc = "done"
    /\ header = HeaderOf(<<"1", "x">>)
    /\ numCols = 2
    /\ Len(pairedData) = 2

(***************************************************************************)
(* Properties of the App, checked under Spec.                              *)
(***************************************************************************)
\* the permutation fftshift applies to a sequence of length n: the element
\* at (1-based) index k of the result comes from index ShiftPerm(n, k)
ShiftPerm(n, k) == ((k - 1 + CeilHalf(n)) % n) + 1

\* C4: fftshift reorders by position only: one permutation p of the indices,
\* depending only on n, gives shifted_labels[k] = labels[p(k)] and
\* shifted_phasors[k] = phasors[p(k)], so in a plot the label at index k and the
\* magnitude at index k come from the same DFT bin.
C4_SameBinAtEveryIndex ==
    getChart.present =>
        LET n == Len(freqs)
        IN  /\ Len(phasors) = n
            /\ Len(getChart.labels) = n
            /\ Len(getChart.data) = n
            /\ \A k \in 1..n :
                  /\ getChart.labels[k] = freqs[ShiftPerm(n, k)]
                  /\ getChart.data[k] = MagnitudeDb(phasors[ShiftPerm(n, k)])

\* a spectrum of three bins with different magnitudes at its ends has been
\* plotted over an existing chart
C4_Witness ==
    /\ getChart.present
    /\ status = "Plotting..."
    /\ Len(freqs) = 3
    /\ MagnitudeDb(phasors[1]) # MagnitudeDb(phasors[3])
    /\ getChart.data = <<MagnitudeDb(phasors[3]), MagnitudeDb(phasors[1]),
                         MagnitudeDb(phasors[2])>>

\* the read whose completion callback (onload or onerror) this step runs
Completes(read) == read \in reads /\ reads' = reads \ {read}

\* C14 (as stated): when reads overlap, only the completion of the most
\* recently requested read may replace the dataset: a stale completion that
\* fires after the newest request's completion has loaded a dataset never
\* changes that dataset.
C14_StaleNeverOverwrites ==
    [][\A read \in reads :
          (/\ Completes(read)
           /\ read.id < selects
           /\ \A other \in reads : other.id # selects
           /\ parsedData.present)
              => parsedData' = parsedData]_vars

\* this step is the onload of a read whose text fails to parse
ParseFails(read) ==
    /\ Completes(read)
    /\ read.content # <<>>
    /\ ~dataSchema(read.content).success
    /\ error' # ErrRead

\* C16 (as stated): when the parse of a loaded file fails, the error message is
\* presented and the previously loaded Dataset is left unchanged.
C16_FailedParseRetainsDataset ==
    [][\A read \in reads :
          ParseFails(read) => (error' = ErrParse /\ parsedData' = parsedData)]_vars

\* C16 (amended): when the parse of a loaded file fails, the error message is
\* presented and the dataset is cleared, whatever was loaded before, so the
\* Plot button is disabled until a later load succeeds; the chart stays.
C16_FailedParseClearsDataset ==
    [][\A read \in reads :
          ParseFails(read) =>
              /\ error' = ErrParse
              /\ status' = "Idle"
              /\ parsedData' = NullData
              /\ ~PlotEnabled'
              /\ getChart' = getChart]_vars

\* a file has failed to parse after an earlier one had been loaded and plotted
C16_Witness ==
    /\ error = ErrParse
    /\ parsedData = NullData
    /\ getChart.present
    /\ selects = 2
    /\ reads = {}

\* C18 (as stated): after any sequence of file loads and plot clicks the status
\* is 'Idle' whenever no handler is executing (and no read is under way): every
\* handler that sets a busy status resets it before it returns.
C18_IdleBetweenHandlers ==
    reads = {} => status = "Idle"

====
